---- MODULE Spec2Model ----
(***************************************************************************)
(* Model of the delivery pipeline of apk_sender_service:                   *)
(* telegram_uploader.send_file_to_group and the session lock registry.     *)
(*                                                                         *)
(* asyncio runs one task per request on one thread, so a task runs without *)
(* interruption from one suspending await to the next.  Each action below  *)
(* is the code a task runs when the awaited call returns, up to the next   *)
(* await that suspends.  pc[r] names the await the task is suspended at.   *)
(***************************************************************************)
EXTENDS Integers, Sequences, FiniteSets, TLC

\* ------------------------------------------------------------------ bounds
\* Largest wait (seconds) a FloodWaitError carries in the model.
MaxWait == 1
\* Length of the staged payload, in read units.
PayloadLen == 1
\* Largest max_retries a caller passes in the model.
MaxRetriesArg == 2

\* ------------------------------------------------------------------ inputs
\* largest upload, in GiB
MaxUploadSize == 3

\* config.MAX_FILE_SIZE_BYTES, in GiB
MAX_FILE_SIZE_BYTES == 2

Requests == {1, 2}

None == "None"

\* bot_token values: absent, the empty string, and one real token.
Tokens == {None, "", "tokA"}

\* group_id values: absent, or one chat id.
GroupIds == {None, "gid"}

\* ------------------------------------------------------- exception classes
\* Errors a platform call (start, get_entity, get_input_entity, send_message,
\* send_file) can raise, by what the handlers can tell apart.
PlatformErrors ==
    { "FloodWait",          \* telethon FloodWaitError, carries .seconds
      "DbLocked",           \* sqlite3.OperationalError("database is locked")
      "SqliteOther",        \* sqlite3.OperationalError, any other text
      "SessionPassword",    \* telethon SessionPasswordNeededError
      "PeerIdInvalid",      \* telethon PeerIdInvalidError
      "RpcNotFound",        \* RPCError whose text has "not found"
      "Rpc",                \* any other RPCError
      "ValueNotFound",      \* ValueError("Could not find the input entity ...")
      "Other" }             \* any other Exception

\* Errors send_file_to_group itself raises.
RaisedErrors ==
    { "ValueError_required",      \* lines 140, 142
      "ValueError_cannot_access", \* line 243
      "ValueError_cannot_send",   \* lines 307, 316
      "RPCError_password",        \* line 354
      "RPCError_db_locked_after", \* line 367
      "RPCError_failed_after" }   \* line 486

\* The Python class of each error.
ClassOf(e) ==
    CASE e = "FloodWait" -> "FloodWaitError"
      [] e \in {"DbLocked", "SqliteOther"} -> "OperationalError"
      [] e = "SessionPassword" -> "SessionPasswordNeededError"
      [] e = "PeerIdInvalid" -> "PeerIdInvalidError"
      [] e \in {"RpcNotFound", "Rpc", "RPCError_password",
                "RPCError_db_locked_after", "RPCError_failed_after"} -> "RPCError"
      [] e \in {"ValueNotFound", "ValueError_required",
                "ValueError_cannot_access", "ValueError_cannot_send"} -> "ValueError"
      [] OTHER -> "Exception"

\* Direct base class (telethon.errors, sqlite3 and builtins hierarchies,
\* intermediate classes left out).
BaseOf(c) ==
    CASE c \in {"FloodWaitError", "SessionPasswordNeededError",
                "PeerIdInvalidError"} -> "RPCError"
      [] OTHER -> "Exception"

\* isinstance(e, c)
IsInstance(e, c) ==
    \/ ClassOf(e) = c
    \/ BaseOf(ClassOf(e)) = c
    \/ c = "Exception"

\* "database is locked" in str(e).lower()
HasDbLocked(e) == e = "DbLocked"

\* "could not find" in str(e).lower() or "not found" in str(e).lower()
HasNotFound(e) == e \in {"RpcNotFound", "ValueNotFound"}

\* The except clauses of the retry loop, in source order.
ExceptClauses ==
    << "FloodWaitError", "SessionPasswordNeededError", "Exception",
       "ValueError", "PeerIdInvalidError", "RPCError" >>

\* The clause Python runs for e: the first one e is an instance of.
ExceptClause(e) ==
    LET matching == {i \in 1..Len(ExceptClauses) : IsInstance(e, ExceptClauses[i])}
        first == CHOOSE i \in matching : \A j \in matching : i <= j
    IN  ExceptClauses[first]

\* What get_entity returns (a full entity; the code tells none of them apart,
\* so User is left out), and what get_input_entity returns.
EntityTypes == {"Channel", "Chat"}
InputTypes == {"InputPeerChannel", "InputPeerChat", "InputPeerUser"}

\* ------------------------------------------------------------ fingerprint
\* The session file of a token: the default session for an empty token,
\* else a file named by the token's digest.
Sha256(t) == "h_" \o t

_session_path_for_token(t) ==
    IF t = None \/ t = "" THEN "default.session"
    ELSE "bot_" \o Sha256(t) \o ".session"

Paths == {_session_path_for_token(t) : t \in Tokens}

\* ------------------------------------------------------------------- state
VARIABLES
    group_id,         \* [request -> GroupIds]   argument
    bot_token,        \* [request -> Tokens]     argument
    max_retries,      \* [request -> Int]        argument
    _session_locks,   \* [path -> lock or 0]     the module-level registry
    locked,           \* [lock -> request or 0]  who holds each asyncio.Lock
    waiters,          \* [lock -> Seq(request)]  each lock's FIFO of waiters
    session_lock,     \* [request -> lock or 0]  the lock the request was given
    pc,               \* [request -> await the task is suspended at]
    retry_count,      \* [request -> Nat]
    client,           \* [request -> "none" | "open" | "closed"]
    entity,           \* [request -> address the send will use]
    entity_resolved,  \* [request -> BOOLEAN]
    cursor,           \* [request -> 0..PayloadLen]  read offset of the payload
    exc,              \* [request -> exception that left the last attempt]
    seconds,          \* [request -> .seconds of that FloodWaitError]
    result,           \* [request -> "none" | "ok" | the exception raised]
    slept,            \* [request -> time slept since the last attempt ended]
    last,             \* [request -> <<platform call, outcome>>] in this attempt
    sends,            \* [request -> send_file calls issued in this attempt]
    attempts,         \* [request -> clients created so far]
    upload,           \* [request -> the upload: filename, keep, actual size]
    stage,            \* [request -> where deploy / its background task is]
    size,             \* [request -> deploy's size]
    file_path,        \* [request -> staged name or None]
    files,            \* [staged name -> Absent | Empty | Holds(request)]
    response,         \* [request -> "none" | "ok" | "413" | "500"]
    unlinks,          \* [request -> files the request removed]
    send_args,        \* the arguments of a call of _send_single
    send_kwargs       \* the keywords it gave client.send_file; <<>> before

\* The upload pipeline around the delivery (api.py); the delivery reads the
\* staged file through its payload and changes none of these.
staging == <<upload, stage, size, file_path, files, response, unlinks>>
\* What one call of _send_single is given and builds; the retry loop and
\* the pipeline keep no state of it.
sending == <<send_args, send_kwargs>>
inputs == <<group_id, bot_token, max_retries, staging, sending>>
lockvars == <<_session_locks, locked, waiters, session_lock>>
vars ==
    <<group_id, bot_token, max_retries, _session_locks, locked, waiters,
      session_lock, pc, retry_count, client, entity, entity_resolved, cursor,
      exc, seconds, result, slept, last, sends, attempts, upload, stage,
      size, file_path, files, response, unlinks, send_args, send_kwargs>>

\* A lock is named by the request whose call created it.
Locks == Requests

\* (A variant in which `if client:` is never true.)
IsSet_never(c) == FALSE

\* client is not None
IsSet(c) == c # "none"

\* A session exists: the client was constructed (which opens the session
\* file) and no disconnect was attempted on it yet.
IsOpen(c) == c = "open"

\* ------------------------------------------------------- staged uploads
\* file.filename of an upload: a name, or None
FileNames == {None, "a.apk"}

\* actual sizes of the uploads, in GiB
Sizes == 1..MaxUploadSize

\* uuid.uuid4().hex drawn by the call of request r (api.py 272)
Uuid(r) == "u" \o ToString(r)

\* filename_to_send (api.py 233)
SentName(fname) == IF fname = None THEN "unknown_file" ELSE fname

\* save_upload's target below UPLOAD_DIR (api.py 80)
SavedName(fname, given) ==
    IF given # None THEN given
    ELSE IF fname # None THEN fname
    ELSE "uploaded_file"

\* Where deploy stages the upload of request r (api.py 265-276).
StagedName(r, fname, keep) ==
    IF keep
    THEN SavedName(fname, None)
    ELSE SavedName(fname, "tmp-" \o Uuid(r) \o "-" \o SentName(fname))

\* A name of the upload directory: no file, a file without bytes, or a
\* file with the bytes of the upload of request r.
Absent == [exists |-> FALSE, data |-> 0]
Empty == [exists |-> TRUE, data |-> 0]
Holds(r) == [exists |-> TRUE, data |-> r]

UploadPaths ==
    {StagedName(r, f, k) : r \in Requests, f \in FileNames, k \in BOOLEAN}

\* No request has called send_file_to_group yet.
NotCalled ==
    /\ _session_locks = [p \in Paths |-> 0]
    /\ locked = [l \in Locks |-> 0]
    /\ waiters = [l \in Locks |-> <<>>]
    /\ session_lock = [r \in Requests |-> 0]
    /\ pc = [r \in Requests |-> "init"]
    /\ retry_count = [r \in Requests |-> 0]
    /\ client = [r \in Requests |-> "none"]
    /\ entity = [r \in Requests |-> None]
    /\ entity_resolved = [r \in Requests |-> FALSE]
    /\ cursor = [r \in Requests |-> 0]
    /\ exc = [r \in Requests |-> "none"]
    /\ seconds = [r \in Requests |-> 0]
    /\ result = [r \in Requests |-> "none"]
    /\ slept = [r \in Requests |-> 0]
    /\ last = [r \in Requests |-> <<"none", "none">>]
    /\ sends = [r \in Requests |-> 0]
    /\ attempts = [r \in Requests |-> 0]

\* Both uploads were staged under private names and their background tasks
\* are at the call of send_file_to_group (api.py 173-177).
Staged ==
    /\ upload = [r \in Requests |->
                    [filename |-> "a.apk", keep |-> FALSE, actual |-> 1]]
    /\ stage = [r \in Requests |-> "delivering"]
    /\ size = [r \in Requests |-> 1]
    /\ file_path = [r \in Requests |-> StagedName(r, "a.apk", FALSE)]
    /\ files = [p \in UploadPaths |->
                   IF \E r \in Requests : p = StagedName(r, "a.apk", FALSE)
                   THEN Holds(CHOOSE r \in Requests :
                                  p = StagedName(r, "a.apk", FALSE))
                   ELSE Absent]
    /\ response = [r \in Requests |-> "ok"]
    /\ unlinks = [r \in Requests |-> 0]

\* The form fields deploy passes down when the client sends none of them
\* (api.py 221-225), with the chunk size send_file_to_group adds; no send
\* was built.
NotSending ==
    /\ send_args = [filename |-> "a.apk", caption |-> None,
                    chunk_size |-> <<1>>, button_text |-> None,
                    button_url |-> None, button_active |-> FALSE]
    /\ send_kwargs = <<>>

\* The arguments of each call.  api._process_file_upload, the one caller,
\* never passes max_retries (api.py 177-187), so all requests of a run have
\* the same value.  Requests are interchangeable, so of the runs that differ
\* only by swapping the two tokens one is kept: the empty token is request
\* 2's.
Init ==
    /\ group_id \in [Requests -> GroupIds]
    /\ bot_token \in {f \in [Requests -> Tokens] : f[1] # ""}
    /\ max_retries \in {[r \in Requests |-> k] : k \in 0..MaxRetriesArg}
    /\ NotCalled
    /\ Staged
    /\ NotSending

\* --------------------------------------------------------- lock registry
\* _get_session_lock: the registry after the call, and the lock returned.
\* fresh names the lock that asyncio.Lock() would create.  _locks_lock is
\* taken and released without suspending (nothing awaits inside it), so it
\* is free at every task switch and is not a variable.
\* (A variant that hands the same lock to every session path.)
_get_session_lock_shared(reg, path, fresh) ==
    [reg |-> [reg EXCEPT ![path] = 1], lock |-> 1]

\* (A variant that creates a lock on every call, registered or not.)
_get_session_lock_always_new(reg, path, fresh) ==
    [reg |-> [reg EXCEPT ![path] = fresh], lock |-> fresh]

_get_session_lock(reg, path, fresh) ==
    IF reg[path] = 0
    THEN [reg |-> [reg EXCEPT ![path] = fresh], lock |-> fresh]
    ELSE [reg |-> reg, lock |-> reg[path]]

\* ------------------------------------------------------------ retry loop
\* (A variant in which leaving the locked region keeps the lock.)
release_never(lk, l) == lk

\* The lock table after `async with session_lock` is left, by return or by
\* an exception (line 160): asyncio.Lock.release.
release(lk, l) == [lk EXCEPT ![l] = 0]

\* (A variant of the loop condition that allows one more round.)
KeepsLooping_once_more(rc, maxr) == rc <= maxr

\* The condition of the while loop (line 156).
KeepsLooping(rc, maxr) == rc < maxr

\* Top of the while loop with retry_count = rc (lines 156-162): leave the
\* loop and raise, or reach `async with session_lock`.  asyncio.Lock.acquire
\* returns at once when the lock is free and nobody waits; otherwise the
\* task joins the FIFO and suspends.  With the lock taken the client is
\* constructed and client.start is awaited.
LoopTop(r, rc, l) ==
    IF ~KeepsLooping(rc, max_retries[r])
    THEN /\ pc' = [pc EXCEPT ![r] = "done"]
         /\ result' = [result EXCEPT ![r] = "RPCError_failed_after"]
         /\ client' = [client EXCEPT ![r] = "none"]
         /\ UNCHANGED <<locked, waiters, attempts, sends>>
    ELSE IF locked[l] = 0 /\ waiters[l] = <<>>
    THEN /\ locked' = [locked EXCEPT ![l] = r]
         /\ client' = [client EXCEPT ![r] = "open"]
         /\ pc' = [pc EXCEPT ![r] = "start"]
         /\ attempts' = [attempts EXCEPT ![r] = @ + 1]
         /\ sends' = [sends EXCEPT ![r] = 0]
         /\ UNCHANGED <<waiters, result>>
    ELSE /\ waiters' = [waiters EXCEPT ![l] = Append(@, r)]
         /\ client' = [client EXCEPT ![r] = "none"]
         /\ pc' = [pc EXCEPT ![r] = "wait_lock"]
         /\ UNCHANGED <<locked, attempts, sends, result>>

\* (A variant that sleeps the advised wait without the extra second.)
FloodWaitTime_no_margin(n) == n

\* time.sleep argument of the rate-limit handler (line 329)
FloodWaitTime(n) == n + 1

\* (A variant with a flat one-second back-off.)
Backoff_flat(rc) == 1

\* time.sleep argument of the database-locked handler (line 368), rc being
\* retry_count after its increment
Backoff(rc) == 1 + rc

NoCall == <<"none", "none">>

\* What the observer keeps of a platform call's error.
OutcomeClass(e) == IF HasNotFound(e) THEN "not_found" ELSE "error"

\* The handler of e goes back to the top of the loop (lines 345, 381).
Retried(r, e) ==
    \/ ExceptClause(e) = "FloodWaitError"
    \/ /\ ExceptClause(e) = "Exception"
       /\ HasDbLocked(e)
       /\ retry_count[r] + 1 < max_retries[r]

\* An exception e (with .seconds = n) leaves the `async with` block while the
\* variable client holds c: the lock l is released and the first matching
\* except clause runs up to its first await.  The clauses at lines 400, 428
\* and 444 come after `except (sqlite3.OperationalError, Exception)` and are
\* never selected.  entity and entity_resolved are assigned again (line 181)
\* before they are next read, so they are cleared here; the payload, left at
\* offset cur, is read again only on the paths that retry.
Raise(r, e, n, c, cur, l) ==
    /\ locked' = release(locked, l)
    /\ cursor' = [cursor EXCEPT ![r] = IF Retried(r, e) THEN cur ELSE 0]
    /\ exc' = [exc EXCEPT ![r] = e]
    /\ seconds' = [seconds EXCEPT ![r] = n]
    /\ slept' = [slept EXCEPT ![r] = 0]
    /\ entity' = [entity EXCEPT ![r] = None]
    /\ entity_resolved' = [entity_resolved EXCEPT ![r] = FALSE]
    /\ last' = [last EXCEPT ![r] = NoCall]
    /\ sends' = [sends EXCEPT ![r] = 0]
    /\ CASE ExceptClause(e) = "FloodWaitError" ->
              /\ pc' = [pc EXCEPT ![r] = "flood_sleep"]
              /\ UNCHANGED <<retry_count, result>>
         [] ExceptClause(e) = "SessionPasswordNeededError" ->
              /\ UNCHANGED retry_count
              /\ IF IsSet(c)
                 THEN pc' = [pc EXCEPT ![r] = "password_disconnect"]
                      /\ UNCHANGED result
                 ELSE pc' = [pc EXCEPT ![r] = "done"]
                      /\ result' = [result EXCEPT ![r] = "RPCError_password"]
         [] ExceptClause(e) = "Exception" ->
              IF HasDbLocked(e)
              THEN /\ retry_count' = [retry_count EXCEPT ![r] = @ + 1]
                   /\ IF retry_count[r] + 1 >= max_retries[r]
                      THEN IF IsSet(c)
                           THEN pc' = [pc EXCEPT ![r] = "exhausted_disconnect"]
                                /\ UNCHANGED result
                           ELSE pc' = [pc EXCEPT ![r] = "done"]
                                /\ result' = [result EXCEPT ![r] = "RPCError_db_locked_after"]
                      ELSE pc' = [pc EXCEPT ![r] = "db_sleep"]
                           /\ UNCHANGED result
              ELSE /\ UNCHANGED retry_count
                   /\ IF IsSet(c)
                      THEN pc' = [pc EXCEPT ![r] = "reraise_disconnect"]
                           /\ UNCHANGED result
                      ELSE pc' = [pc EXCEPT ![r] = "done"]
                           /\ result' = [result EXCEPT ![r] = e]
         [] OTHER -> FALSE

\* Outcomes of one platform call: it returns, or raises one of the errors.
\* Only a FloodWaitError carries seconds.
Failures ==
    {<<e, n>> : e \in PlatformErrors \ {"FloodWait"}, n \in {0}}
        \cup {<<"FloodWait", n>> : n \in 0..MaxWait}

\* -------------------------------------------------------------- actions
\* (A variant that requires only the credential.)
Missing_token_only(g, t) == t = None

\* A required argument was not provided (lines 139-142): only None counts,
\* an empty token or a zero id passes.
Missing(g, t) == g = None \/ t = None

\* send_file_to_group is called (lines 139-162).
Call(r) ==
    /\ pc[r] = "init"
    /\ IF Missing(group_id[r], bot_token[r])
       THEN /\ pc' = [pc EXCEPT ![r] = "done"]
            /\ result' = [result EXCEPT ![r] = "ValueError_required"]
            /\ UNCHANGED <<lockvars, client, attempts, sends>>
       ELSE LET got == _get_session_lock(_session_locks,
                           _session_path_for_token(bot_token[r]), r)
            IN  /\ _session_locks' = got.reg
                /\ session_lock' = [session_lock EXCEPT ![r] = got.lock]
                /\ LoopTop(r, 0, got.lock)
    /\ UNCHANGED <<inputs, retry_count, entity, entity_resolved, cursor, exc,
                   seconds, slept, last>>

\* The lock was released and r is the first waiter: acquire() returns, the
\* client is constructed and client.start is awaited (lines 160-165).
LockGranted(r) ==
    /\ pc[r] = "wait_lock"
    /\ locked[session_lock[r]] = 0
    /\ waiters[session_lock[r]] # <<>>
    /\ Head(waiters[session_lock[r]]) = r
    /\ locked' = [locked EXCEPT ![session_lock[r]] = r]
    /\ waiters' = [waiters EXCEPT ![session_lock[r]] = Tail(@)]
    /\ client' = [client EXCEPT ![r] = "open"]
    /\ pc' = [pc EXCEPT ![r] = "start"]
    /\ attempts' = [attempts EXCEPT ![r] = @ + 1]
    /\ sends' = [sends EXCEPT ![r] = 0]
    /\ UNCHANGED <<inputs, _session_locks, session_lock, retry_count, entity,
                   entity_resolved, cursor, exc, seconds, result, slept, last>>

\* The attempt is past its connect: what is remembered of the attempt
\* before it (the exception handled, its wait, the time slept) is dropped.
Connected(r) ==
    /\ exc' = [exc EXCEPT ![r] = "none"]
    /\ seconds' = [seconds EXCEPT ![r] = 0]
    /\ slept' = [slept EXCEPT ![r] = 0]

\* client.start returned (lines 165, 181-186).
StartOk(r) ==
    /\ pc[r] = "start"
    /\ last' = [last EXCEPT ![r] = <<"start", "ok">>]
    /\ pc' = [pc EXCEPT ![r] = "get_entity"]
    /\ Connected(r)
    /\ UNCHANGED <<inputs, lockvars, retry_count, client, entity,
                   entity_resolved, cursor, result, sends, attempts>>

\* client.start raised (lines 164-176).  The inner handler takes a
\* sqlite3.OperationalError: "database is locked" disconnects and re-raises;
\* any other text leaves the handler without raising, and the attempt goes
\* on to line 181 with a client that did not start.
StartFails(r) ==
    /\ pc[r] = "start"
    /\ \E f \in Failures :
        IF IsInstance(f[1], "OperationalError")
        THEN /\ last' = [last EXCEPT ![r] = <<"start", OutcomeClass(f[1])>>]
             /\ IF HasDbLocked(f[1])
                THEN pc' = [pc EXCEPT ![r] = "locked_disconnect"]
                ELSE pc' = [pc EXCEPT ![r] = "get_entity"]
             /\ Connected(r)
             /\ UNCHANGED <<locked, retry_count, result, entity,
                            entity_resolved, sends, cursor>>
        ELSE Raise(r, f[1], f[2], client[r], cursor[r], session_lock[r])
    /\ UNCHANGED <<inputs, _session_locks, waiters, session_lock, client,
                   attempts>>

\* The disconnect of line 171 returned or raised; client = None; the
\* OperationalError is re-raised (lines 171-176) and leaves the lock.
LockedDisconnect(r) ==
    /\ pc[r] = "locked_disconnect"
    /\ client' = [client EXCEPT ![r] = "none"]
    /\ Raise(r, "DbLocked", 0, "none", cursor[r], session_lock[r])
    /\ UNCHANGED <<inputs, _session_locks, waiters, session_lock, attempts>>

\* (A variant for which no address is of the old format.)
IsLegacy_never(e) == FALSE

\* isinstance(entity, InputPeerChat) (lines 202, 258): the old chat format
IsLegacy(e) == e = "InputPeerChat"

\* (A variant that always sends to the integer id.)
FinalAddress_raw(e) == "int"

\* An address of the old format is replaced by the integer id before the
\* send (lines 258-260).
FinalAddress(e) == IF IsLegacy(e) THEN "int" ELSE e

\* Lines 250-263: r goes on to the first send_file with address e.
IssueSend(r, e, res) ==
    /\ entity' = [entity EXCEPT ![r] = FinalAddress(e)]
    /\ entity_resolved' = [entity_resolved EXCEPT ![r] = res]
    /\ sends' = [sends EXCEPT ![r] = 1]
    /\ pc' = [pc EXCEPT ![r] = "send_file"]

\* (A variant whose handlers let a rate-limit error through.)
StrategyCatches_but_flood(e) ==
    IsInstance(e, "Exception") /\ ~IsInstance(e, "FloodWaitError")

\* `except Exception` around strategy 1 and around strategy 2 (lines 189,
\* 208) takes the error.
StrategyCatches(e) == IsInstance(e, "Exception")

\* Strategy 1: get_entity returned or raised (lines 185-196).
GetEntityOk(r) ==
    /\ pc[r] = "get_entity"
    /\ \E t \in EntityTypes :
        /\ last' = [last EXCEPT ![r] = <<"get_entity", "ok">>]
        /\ IssueSend(r, t, TRUE)
    /\ UNCHANGED <<inputs, lockvars, retry_count, client, cursor, exc,
                   seconds, result, slept, attempts>>

GetEntityFails(r) ==
    /\ pc[r] = "get_entity"
    /\ \E f \in Failures :
        IF StrategyCatches(f[1])
        THEN /\ last' = [last EXCEPT ![r] = <<"get_entity", OutcomeClass(f[1])>>]
             /\ pc' = [pc EXCEPT ![r] = "get_input_entity"]
             /\ UNCHANGED <<locked, retry_count, entity, entity_resolved,
                            cursor, exc, seconds, result, slept, sends>>
        ELSE Raise(r, f[1], f[2], client[r], cursor[r], session_lock[r])
    /\ UNCHANGED <<inputs, _session_locks, waiters, session_lock, client,
                   attempts>>

\* Strategy 2: get_input_entity returned or raised (lines 194-219).
GetInputEntityOk(r) ==
    /\ pc[r] = "get_input_entity"
    /\ last' = [last EXCEPT ![r] = <<"get_input_entity", "ok">>]
    /\ \E t \in InputTypes :
        IF IsLegacy(t)
        THEN /\ entity' = [entity EXCEPT ![r] = "int"]
             /\ pc' = [pc EXCEPT ![r] = "send_message"]
             /\ UNCHANGED <<entity_resolved, sends>>
        ELSE IssueSend(r, t, TRUE)
    /\ UNCHANGED <<inputs, lockvars, retry_count, client, cursor, exc,
                   seconds, result, slept, attempts>>

GetInputEntityFails(r) ==
    /\ pc[r] = "get_input_entity"
    /\ \E f \in Failures :
        IF StrategyCatches(f[1])
        THEN /\ last' = [last EXCEPT ![r] =
                            <<"get_input_entity", OutcomeClass(f[1])>>]
             /\ pc' = [pc EXCEPT ![r] = "send_message"]
             /\ UNCHANGED <<locked, retry_count, entity, entity_resolved,
                            cursor, exc, seconds, result, slept, sends>>
        ELSE Raise(r, f[1], f[2], client[r], cursor[r], session_lock[r])
    /\ UNCHANGED <<inputs, _session_locks, waiters, session_lock, client,
                   attempts>>

\* (A variant in which no probe error is fatal.)
ProbeIsFatal_never(e) == FALSE

\* (A variant in which every probe error is fatal.)
ProbeIsFatal_always(e) == TRUE

\* The probe's error means the bot cannot reach the destination (line 232).
ProbeIsFatal(e) == HasNotFound(e)

\* Strategy 3: the probe send_message returned (lines 219-223).
ProbeOk(r) ==
    /\ pc[r] = "send_message"
    /\ last' = [last EXCEPT ![r] = <<"send_message", "ok">>]
    /\ pc' = [pc EXCEPT ![r] = "get_entity_again"]
    /\ UNCHANGED <<inputs, lockvars, retry_count, client, entity,
                   entity_resolved, cursor, exc, seconds, result, slept,
                   sends, attempts>>

\* The probe raised (lines 230-248): a "not found" error disconnects and
\* raises ValueError, any other error falls back to the integer id.
ProbeFails(r) ==
    /\ pc[r] = "send_message"
    /\ \E f \in Failures :
        /\ last' = [last EXCEPT ![r] = <<"send_message", OutcomeClass(f[1])>>]
        /\ IF ProbeIsFatal(f[1])
           THEN /\ pc' = [pc EXCEPT ![r] = "probe_disconnect"]
                /\ UNCHANGED <<entity, entity_resolved, sends>>
           ELSE IssueSend(r, "int", FALSE)
    /\ UNCHANGED <<inputs, lockvars, retry_count, client, cursor, exc,
                   seconds, result, slept, attempts>>

\* The disconnect of line 240 returned or raised; ValueError is raised
\* (line 243) and leaves the lock.  client still names the closed client.
ProbeDisconnect(r) ==
    /\ pc[r] = "probe_disconnect"
    /\ client' = [client EXCEPT ![r] = "closed"]
    /\ Raise(r, "ValueError_cannot_access", 0, "closed", cursor[r],
             session_lock[r])
    /\ UNCHANGED <<inputs, _session_locks, waiters, session_lock, attempts>>

\* get_entity after the probe returned or raised (lines 222-229).
GetEntityAgainOk(r) ==
    /\ pc[r] = "get_entity_again"
    /\ last' = [last EXCEPT ![r] = <<"get_entity_again", "ok">>]
    /\ \E t \in EntityTypes : IssueSend(r, t, TRUE)
    /\ UNCHANGED <<inputs, lockvars, retry_count, client, cursor, exc,
                   seconds, result, slept, attempts>>

GetEntityAgainFails(r) ==
    /\ pc[r] = "get_entity_again"
    /\ \E f \in Failures :
        last' = [last EXCEPT ![r] = <<"get_entity_again", OutcomeClass(f[1])>>]
    /\ IssueSend(r, "int", FALSE)
    /\ UNCHANGED <<inputs, lockvars, retry_count, client, cursor, exc,
                   seconds, result, slept, attempts>>

\* (A variant in which seek leaves the cursor where it is.)
Rewound_nowhere(c) == c

\* The cursor after payload.seek(0) (lines 283, 336, 378).  The payload is
\* the NamedStream over the staged file that api._process_file_upload opens
\* (api.py 173-174), so it has seek.
Rewound(c) == 0

\* (A variant that repeats the send whatever the address was.)
RetryWithRawId_always(e) == TRUE

\* The first send is repeated with the integer id after PeerIdInvalidError
\* when the address was an input peer (line 278; an int address is always
\* target_group itself).
RetryWithRawId(e) == e \in InputTypes

\* send_file returned (lines 263-274 or 287-298, 318-323): the payload was
\* read to its end; the disconnect of line 323 is awaited inside the lock.
\* entity is not read after the send.
SendFileOk(r) ==
    /\ pc[r] \in {"send_file", "send_file_again"}
    /\ last' = [last EXCEPT ![r] = <<pc[r], "ok">>]
    /\ cursor' = [cursor EXCEPT ![r] = PayloadLen]
    /\ entity' = [entity EXCEPT ![r] = None]
    /\ entity_resolved' = [entity_resolved EXCEPT ![r] = FALSE]
    /\ pc' = [pc EXCEPT ![r] = "success_disconnect"]
    /\ UNCHANGED <<inputs, lockvars, retry_count, client, exc, seconds,
                   result, slept, sends, attempts>>

\* The first send_file raised after reading the payload up to some offset
\* (lines 275-316).
SendFileFails(r) ==
    /\ pc[r] = "send_file"
    /\ \E f \in Failures, read \in cursor[r]..PayloadLen :
        IF IsInstance(f[1], "PeerIdInvalidError")
        THEN IF RetryWithRawId(entity[r])
             THEN /\ cursor' = [cursor EXCEPT ![r] = Rewound(read)]
                  /\ last' = [last EXCEPT ![r] = <<"send_file", OutcomeClass(f[1])>>]
                  /\ entity' = [entity EXCEPT ![r] = "int"]
                  /\ sends' = [sends EXCEPT ![r] = 2]
                  /\ pc' = [pc EXCEPT ![r] = "send_file_again"]
                  /\ UNCHANGED <<locked, exc, seconds, retry_count, result,
                                 slept, entity_resolved>>
             ELSE Raise(r, "ValueError_cannot_send", 0, client[r], read,
                        session_lock[r])
        ELSE Raise(r, f[1], f[2], client[r], read, session_lock[r])
    /\ UNCHANGED <<inputs, _session_locks, waiters, session_lock, client,
                   attempts>>

\* The second send_file, to the integer id, raised (lines 286-307).
SendFileAgainFails(r) ==
    /\ pc[r] = "send_file_again"
    /\ \E f \in Failures, read \in cursor[r]..PayloadLen :
        IF IsInstance(f[1], "PeerIdInvalidError")
        THEN Raise(r, "ValueError_cannot_send", 0, client[r], read,
                   session_lock[r])
        ELSE Raise(r, f[1], f[2], client[r], read, session_lock[r])
    /\ UNCHANGED <<inputs, _session_locks, waiters, session_lock, client,
                   attempts>>

\* The coroutine returns or raises: its locals are gone.
Finished(r) ==
    /\ pc' = [pc EXCEPT ![r] = "done"]
    /\ cursor' = [cursor EXCEPT ![r] = 0]
    /\ seconds' = [seconds EXCEPT ![r] = 0]
    /\ slept' = [slept EXCEPT ![r] = 0]
    /\ last' = [last EXCEPT ![r] = NoCall]
    /\ sends' = [sends EXCEPT ![r] = 0]

\* (A variant in which an error of the closing disconnect is not contained
\* and leaves the attempt.)
SuccessDisconnect_raises(r) ==
    /\ pc[r] = "success_disconnect"
    /\ client' = [client EXCEPT ![r] = "closed"]
    /\ Raise(r, "Other", 0, "closed", cursor[r], session_lock[r])
    /\ UNCHANGED <<inputs, _session_locks, waiters, session_lock, attempts>>

\* The disconnect of line 323 returned or raised; return leaves the lock
\* (lines 321-326).
SuccessDisconnect(r) ==
    /\ pc[r] = "success_disconnect"
    /\ client' = [client EXCEPT ![r] = "closed"]
    /\ locked' = release(locked, session_lock[r])
    /\ result' = [result EXCEPT ![r] = "ok"]
    /\ Finished(r)
    /\ UNCHANGED <<inputs, _session_locks, waiters, session_lock,
                   retry_count, entity, entity_resolved, exc, attempts>>

\* The sleep of line 331 is over (lines 331-345): count the attempt, rewind
\* the payload, then disconnect the client if there is one.
FloodWake(r) ==
    /\ pc[r] = "flood_sleep"
    /\ slept' = [slept EXCEPT ![r] = FloodWaitTime(seconds[r])]
    /\ retry_count' = [retry_count EXCEPT ![r] = @ + 1]
    /\ cursor' = [cursor EXCEPT ![r] = Rewound(@)]
    /\ IF IsSet(client[r])
       THEN /\ pc' = [pc EXCEPT ![r] = "flood_disconnect"]
            /\ UNCHANGED <<client, locked, waiters, attempts, sends, result>>
       ELSE LoopTop(r, retry_count[r] + 1, session_lock[r])
    /\ UNCHANGED <<inputs, _session_locks, session_lock, entity,
                   entity_resolved, exc, seconds, last>>

\* The disconnect of line 341 returned or raised; client = None; continue.
FloodDisconnect(r) ==
    /\ pc[r] = "flood_disconnect"
    /\ LoopTop(r, retry_count[r], session_lock[r])
    /\ UNCHANGED <<inputs, _session_locks, session_lock, retry_count, entity,
                   entity_resolved, cursor, exc, seconds, slept, last>>

\* The disconnect of line 351 returned or raised; RPCError is raised.
PasswordDisconnect(r) ==
    /\ pc[r] = "password_disconnect"
    /\ client' = [client EXCEPT ![r] = "closed"]
    /\ result' = [result EXCEPT ![r] = "RPCError_password"]
    /\ Finished(r)
    /\ UNCHANGED <<inputs, lockvars, retry_count, entity, entity_resolved,
                   exc, attempts>>

\* The disconnect of line 364 returned or raised; RPCError is raised.
ExhaustedDisconnect(r) ==
    /\ pc[r] = "exhausted_disconnect"
    /\ client' = [client EXCEPT ![r] = "closed"]
    /\ result' = [result EXCEPT ![r] = "RPCError_db_locked_after"]
    /\ Finished(r)
    /\ UNCHANGED <<inputs, lockvars, retry_count, entity, entity_resolved,
                   exc, attempts>>

\* The sleep of line 368 is over (lines 368-381).
DbWake(r) ==
    /\ pc[r] = "db_sleep"
    /\ slept' = [slept EXCEPT ![r] = Backoff(retry_count[r])]
    /\ IF IsSet(client[r])
       THEN /\ pc' = [pc EXCEPT ![r] = "db_disconnect"]
            /\ UNCHANGED <<client, cursor, locked, waiters, attempts, sends,
                           result>>
       ELSE /\ cursor' = [cursor EXCEPT ![r] = Rewound(@)]
            /\ LoopTop(r, retry_count[r], session_lock[r])
    /\ UNCHANGED <<inputs, _session_locks, session_lock, retry_count, entity,
                   entity_resolved, exc, seconds, last>>

\* The disconnect of line 371 returned or raised; client = None; the payload
\* is rewound; continue.
DbDisconnect(r) ==
    /\ pc[r] = "db_disconnect"
    /\ cursor' = [cursor EXCEPT ![r] = Rewound(@)]
    /\ LoopTop(r, retry_count[r], session_lock[r])
    /\ UNCHANGED <<inputs, _session_locks, session_lock, retry_count, entity,
                   entity_resolved, exc, seconds, slept, last>>

\* The disconnect of line 386 or 395 returned or raised; the exception that
\* left the attempt is raised again (lines 382-398).
ReraiseDisconnect(r) ==
    /\ pc[r] = "reraise_disconnect"
    /\ client' = [client EXCEPT ![r] = "closed"]
    /\ result' = [result EXCEPT ![r] = exc[r]]
    /\ Finished(r)
    /\ UNCHANGED <<inputs, lockvars, retry_count, entity, entity_resolved,
                   exc, attempts>>

Next ==
    \E r \in Requests :
        \/ Call(r)
        \/ LockGranted(r)
        \/ StartOk(r)
        \/ StartFails(r)
        \/ LockedDisconnect(r)
        \/ GetEntityOk(r)
        \/ GetEntityFails(r)
        \/ GetInputEntityOk(r)
        \/ GetInputEntityFails(r)
        \/ ProbeOk(r)
        \/ ProbeFails(r)
        \/ ProbeDisconnect(r)
        \/ GetEntityAgainOk(r)
        \/ GetEntityAgainFails(r)
        \/ SendFileOk(r)
        \/ SendFileFails(r)
        \/ SendFileAgainFails(r)
        \/ SuccessDisconnect(r)
        \/ FloodWake(r)
        \/ FloodDisconnect(r)
        \/ PasswordDisconnect(r)
        \/ ExhaustedDisconnect(r)
        \/ DbWake(r)
        \/ DbDisconnect(r)
        \/ ReraiseDisconnect(r)

Spec == Init /\ [][Next]_vars

\* The event loop resumes a task whose awaited call returned, and every
\* platform call, sleep and disconnect returns: as long as some request can
\* take a step, one is taken.  No request is promised more than that.
LiveSpec == Spec /\ WF_vars(Next)

\* ------------------------------------------------------ upload pipeline
\* The variables of the delivery, which the steps of deploy leave alone.
delivery ==
    <<group_id, bot_token, max_retries, lockvars, retry_count, client,
      entity, entity_resolved, cursor, exc, seconds, slept, last, sends,
      attempts, sending>>

\* The content-length header of the uploaded part: absent (<<>>), or the
\* number the client wrote.
Declared == {<<>>} \cup {<<n>> : n \in 0..MaxUploadSize}

\* _get_upload_size (api.py 111-144): the size read from the upload, or 0
\* when reading it raised.
_get_upload_size(actual, raised) == IF raised THEN 0 ELSE actual

\* deploy's size before staging (api.py 240-252).
SizeBeforeStaging(declared, actual, raised) ==
    IF declared # <<>> THEN declared[1] ELSE _get_upload_size(actual, raised)

\* (A variant that lets every size through.)
TooLarge_never(n) == FALSE

\* The size check (api.py 255).
TooLarge(n) == n > 0 /\ n > MAX_FILE_SIZE_BYTES

\* st_size of a staged file with content c
StatSize(c) == IF c.data = 0 THEN 0 ELSE upload[c.data].actual

\* deploy is called (api.py 233-276, 80-87): the size is determined and
\* checked, then save_upload opens its target for writing, which creates
\* the file or truncates the one that is there.
Receive(r) ==
    /\ stage[r] = "received"
    /\ \E d \in Declared, raised \in BOOLEAN :
        LET n == SizeBeforeStaging(d, upload[r].actual, raised)
            target == StagedName(r, upload[r].filename, upload[r].keep)
        IN  IF TooLarge(n)
            THEN /\ response' = [response EXCEPT ![r] = "413"]
                 /\ stage' = [stage EXCEPT ![r] = "rejected"]
                 /\ UNCHANGED <<size, file_path, files>>
            ELSE /\ size' = [size EXCEPT ![r] = n]
                 /\ file_path' = [file_path EXCEPT ![r] = target]
                 /\ files' = [files EXCEPT ![target] = Empty]
                 /\ stage' = [stage EXCEPT ![r] = "writing"]
                 /\ UNCHANGED response
    /\ UNCHANGED <<delivery, pc, result, upload, unlinks>>

\* save_upload wrote the chunk it read (api.py 87-91).  A file that was
\* removed under the writer stays removed: the chunk goes to the open
\* descriptor.
SaveWrite(r) ==
    /\ stage[r] = "writing"
    /\ files' = [files EXCEPT ![file_path[r]] = IF @.exists THEN Holds(r) ELSE @]
    /\ stage' = [stage EXCEPT ![r] = "written"]
    /\ UNCHANGED <<delivery, pc, result, upload, size, file_path, response,
                   unlinks>>

\* (A variant of unlink that leaves the file in place.)
unlink_nothing(c) == c

\* The file at a path after Path.unlink (api.py 101, 209).
unlink(c) == Absent

\* A read or a write raised, before or after the first chunk was written
\* (api.py 98-105, 277-279): the target is removed if it exists, and deploy
\* answers 500.
SaveFails(r) ==
    /\ stage[r] \in {"writing", "written"}
    /\ files' = [files EXCEPT ![file_path[r]] =
                    IF @.exists THEN unlink(@) ELSE @]
    /\ unlinks' = [unlinks EXCEPT ![r] =
                      IF files[file_path[r]].exists THEN @ + 1 ELSE @]
    /\ response' = [response EXCEPT ![r] = "500"]
    /\ stage' = [stage EXCEPT ![r] = "rejected"]
    /\ size' = [size EXCEPT ![r] = 0]
    /\ UNCHANGED <<delivery, pc, result, upload, file_path>>

\* save_upload read the end of the upload and returned (api.py 88-89,
\* 107-108, 266-300): a size still unknown is taken from the staged file,
\* whose stat raises when the file is gone; the background task is added
\* and deploy answers.
SaveDone(r) ==
    /\ stage[r] = "written"
    /\ IF size[r] = 0 /\ ~files[file_path[r]].exists
       THEN /\ response' = [response EXCEPT ![r] = "500"]
            /\ stage' = [stage EXCEPT ![r] = "rejected"]
            /\ UNCHANGED size
       ELSE /\ size' = [size EXCEPT ![r] =
                           IF @ = 0 THEN StatSize(files[file_path[r]]) ELSE @]
            /\ response' = [response EXCEPT ![r] = "ok"]
            /\ stage' = [stage EXCEPT ![r] = "queued"]
    /\ UNCHANGED <<delivery, pc, result, upload, file_path, files, unlinks>>

\* The background task starts (api.py 162-177): without the staged file it
\* returns at once; with it, it opens the file and calls
\* send_file_to_group.
TaskStart(r) ==
    /\ stage[r] = "queued"
    /\ stage' = [stage EXCEPT ![r] =
                    IF files[file_path[r]].exists THEN "delivering"
                    ELSE "finished"]
    /\ UNCHANGED <<delivery, pc, result, upload, size, file_path, files,
                   response, unlinks>>

\* What a call of send_file_to_group ends with: it returns, or raises one
\* of its own errors or the platform error it re-raises (lines 139-142,
\* 326, 354, 367, 389, 398, 486).  These are the results the requests of
\* Spec end with.
DeliveryOutcomes(g, t) ==
    IF Missing(g, t)
    THEN {"ValueError_required"}
    ELSE {"ok"} \cup (RaisedErrors \ {"ValueError_required"})
            \cup {e \in PlatformErrors :
                     ExceptClause(e) = "Exception" /\ ~HasDbLocked(e)}

\* (A variant that removes nothing.)
ShouldDelete_never(keep, exists) == FALSE

\* The staged file is removed after the delivery (api.py 207).
ShouldDelete(keep, exists) == ~keep /\ exists

\* send_file_to_group returned or raised (api.py 177-212): whatever the
\* outcome it is logged, the stream is closed, and the staged file is
\* removed unless it is kept.
TaskDelivered(r) ==
    /\ stage[r] = "delivering"
    /\ pc[r] = "init"
    /\ \E o \in DeliveryOutcomes(group_id[r], bot_token[r]) :
        result' = [result EXCEPT ![r] = o]
    /\ pc' = [pc EXCEPT ![r] = "done"]
    /\ IF ShouldDelete(upload[r].keep, files[file_path[r]].exists)
       THEN /\ files' = [files EXCEPT ![file_path[r]] = unlink(@)]
            /\ unlinks' = [unlinks EXCEPT ![r] = @ + 1]
       ELSE UNCHANGED <<files, unlinks>>
    /\ stage' = [stage EXCEPT ![r] = "finished"]
    /\ UNCHANGED <<delivery, upload, size, file_path, response>>

\* Two uploads arrive.  Each carries a credential; the destination id may
\* be missing.
ApiInit ==
    /\ group_id \in [Requests -> GroupIds]
    /\ bot_token = [r \in Requests |-> "tokA"]
    /\ max_retries = [r \in Requests |-> MaxRetriesArg]
    /\ NotCalled
    /\ upload \in [Requests ->
                     [filename : FileNames, keep : BOOLEAN, actual : Sizes]]
    /\ stage = [r \in Requests |-> "received"]
    /\ size = [r \in Requests |-> 0]
    /\ file_path = [r \in Requests |-> None]
    /\ files = [p \in UploadPaths |-> Absent]
    /\ response = [r \in Requests |-> "none"]
    /\ unlinks = [r \in Requests |-> 0]
    /\ NotSending

ApiNext ==
    \E r \in Requests :
        \/ Receive(r)
        \/ SaveWrite(r)
        \/ SaveFails(r)
        \/ SaveDone(r)
        \/ TaskStart(r)
        \/ TaskDelivered(r)

ApiSpec == ApiInit /\ [][ApiNext]_vars

\* ------------------------------------------------------------ one send
\* Captions, button texts and button urls: absent, empty, or some text.
Captions == {None, "", "build 7"}
ButtonTexts == {None, "", "Open"}
ButtonUrls == {None, "", "https://t.me/x"}

\* chunk_size: None (<<>>) or a size.
ChunkSizes == {<<>>, <<1>>}

SendArgs ==
    [filename : {"a.apk"}, caption : Captions, chunk_size : ChunkSizes,
     button_text : ButtonTexts, button_url : ButtonUrls,
     button_active : BOOLEAN]

\* (A variant of the truth test that takes every string, empty or not.)
Truthy_any_string(x) == x # None

\* Python's truth value of a str | None: None and "" are false.
Truthy(x) == x # None /\ x # ""

\* Button.url(text=..., url=...) (line 78)
ButtonUrl(text, url) == [text |-> text, url |-> url]

\* The keywords _send_single passes to client.send_file (lines 66-82).  A
\* key that is not set is not in the domain.
_send_single(a) ==
    LET base == [caption |-> IF Truthy(a.caption) THEN a.caption
                                                  ELSE "New Flutter release",
                 force_document |-> TRUE,
                 allow_cache |-> FALSE,
                 file_name |-> a.filename]
        chunked == IF a.chunk_size # <<>>
                   THEN base @@ ("chunk_size" :> a.chunk_size[1])
                   ELSE base
    IN  IF a.button_active /\ Truthy(a.button_text) /\ Truthy(a.button_url)
        THEN chunked @@ ("buttons" :>
                            <<<<ButtonUrl(a.button_text, a.button_url)>>>>)
        ELSE chunked

\* One call with any arguments, outside any delivery.
SendInit ==
    /\ group_id = [r \in Requests |-> "gid"]
    /\ bot_token = [r \in Requests |-> "tokA"]
    /\ max_retries = [r \in Requests |-> MaxRetriesArg]
    /\ NotCalled
    /\ Staged
    /\ send_args \in SendArgs
    /\ send_kwargs = <<>>

\* _send_single runs up to its await of client.send_file (line 82).
SendSingle ==
    /\ DOMAIN send_kwargs = {}
    /\ send_kwargs' = _send_single(send_args)
    /\ UNCHANGED <<group_id, bot_token, max_retries, staging, lockvars, pc,
                   retry_count, client, entity, entity_resolved, cursor, exc,
                   seconds, result, slept, last, sends, attempts, send_args>>

SendNext == SendSingle

SendSpec == SendInit /\ [][SendNext]_vars

\* ------------------------------------------------------------- claims
\* The attempt of r holds the lock: r is suspended inside `async with`.
InAttempt(r) ==
    pc[r] \in {"start", "locked_disconnect", "get_entity", "get_input_entity",
               "send_message", "probe_disconnect", "get_entity_again",
               "send_file", "send_file_again", "success_disconnect"}

\* Both requests passed the argument checks with tokens of one fingerprint.
SameFingerprint(r1, r2) ==
    /\ r1 # r2
    /\ session_lock[r1] # 0
    /\ session_lock[r2] # 0
    /\ _session_path_for_token(bot_token[r1]) = _session_path_for_token(bot_token[r2])

\* C1: at every instant at most one session (a client constructed and not
\* yet disconnected) exists per credential fingerprint.
C1_OneSessionPerFingerprint ==
    \A r1, r2 \in Requests :
        SameFingerprint(r1, r2) => ~(IsOpen(client[r1]) /\ IsOpen(client[r2]))

\* C2: a request inside its connect/resolve/send phase holds the lock of
\* its fingerprint, no two requests of one fingerprint are inside the phase
\* together, and requests of one fingerprint were given the same lock.
C2_LockHeldThroughAttempt ==
    /\ \A r \in Requests : InAttempt(r) => locked[session_lock[r]] = r
    /\ \A r1, r2 \in Requests :
          SameFingerprint(r1, r2) =>
              /\ session_lock[r1] = session_lock[r2]
              /\ ~(InAttempt(r1) /\ InAttempt(r2))

\* One request is sending while another of the same fingerprint waits for
\* the lock.
C2_Witness ==
    \E r1, r2 \in Requests :
        /\ SameFingerprint(r1, r2)
        /\ pc[r1] = "send_file"
        /\ pc[r2] = "wait_lock"

\* C3: handling a rate-limit error leaves the attempt counter as it was.
C3_FloodNotCounted ==
    [][\A r \in Requests :
          pc[r] = "flood_sleep" => retry_count'[r] = retry_count[r]]_vars

\* C4: after a rate-limit error advising a wait of N seconds the request
\* is back at the lock or connecting only once N + 1 seconds were slept and
\* the payload cursor is at 0; the cursor is at 0 whenever a first send of an
\* attempt is in flight.
C4_FloodCooldown ==
    \A r \in Requests :
        /\ exc[r] = "FloodWait" /\ pc[r] \in {"flood_disconnect", "wait_lock", "start"}
              => slept[r] >= seconds[r] + 1 /\ cursor[r] = 0
        /\ pc[r] = "send_file" => cursor[r] = 0

\* The attempt after a rate-limit error with the longest advised wait is
\* connecting.
C4_Witness ==
    \E r \in Requests :
        /\ exc[r] = "FloodWait"
        /\ seconds[r] = MaxWait
        /\ attempts[r] = 2
        /\ pc[r] = "start"

\* C5: a transient remote error is what the request ends with only once
\* max_retries attempts were made; with fewer the request is not ended by it.
C5_ExhaustedOnlyAfterMaxRetries ==
    \A r \in Requests :
        pc[r] = "done" /\ result[r] = "Rpc" => attempts[r] = max_retries[r]

\* C6: a generic remote error with attempts remaining does not end the
\* request: it is slept on and the request re-enters CONNECTING.
C6_TransientRetried ==
    \A r \in Requests :
        exc[r] = "Rpc" /\ attempts[r] < max_retries[r]
            => pc[r] \notin {"reraise_disconnect", "done"}

C8_NotFoundIsCannotAccess ==
    \A r \in Requests :
        exc[r] \in {"RpcNotFound", "PeerIdInvalid"} =>
            /\ pc[r] \in {"reraise_disconnect", "done"}
            /\ pc[r] = "done" => result[r] = "ValueError_cannot_send"

\* C9: an unexpected error ends the request at once; strategy 1 is reached
\* only after a session open that returned.
C9_UnexpectedIsFatal ==
    \A r \in Requests :
        /\ exc[r] \in {"Other", "SqliteOther"} => pc[r] \in {"reraise_disconnect", "done"}
        /\ pc[r] = "get_entity" => last[r] = <<"start", "ok">>

\* C10: the probe is sent exactly when strategies 1 and 2 left the
\* destination unresolved; a probe answered "not found" is followed by the
\* disconnect and the destination-unreachable failure, with no send in the
\* attempt and nothing after it but the end of the request.
C10_ProbeNotFoundIsFatal ==
    \A r \in Requests :
        /\ pc[r] = "send_message" => ~entity_resolved[r] /\ sends[r] = 0
        /\ last[r][1] = "get_input_entity" =>
              (pc[r] = "send_message") = (last[r][2] # "ok" \/ entity[r] = "int")
        /\ last[r] = <<"send_message", "not_found">> =>
              pc[r] = "probe_disconnect" /\ sends[r] = 0
        /\ exc[r] = "ValueError_cannot_access" =>
              /\ pc[r] \in {"reraise_disconnect", "done"}
              /\ pc[r] = "done" => result[r] = "ValueError_cannot_access"

\* A request ended with the destination-unreachable failure of the probe.
C10_Witness ==
    \E r \in Requests :
        /\ pc[r] = "done"
        /\ result[r] = "ValueError_cannot_access"
        /\ attempts[r] = 1

\* C11: when strategy 1 returns an entity, the first send is issued with
\* that entity as its address; strategy 2 runs only after a strategy 1 that
\* raised, and the probe only after strategy 2.
C11_Strategy1GoesToSend ==
    \A r \in Requests :
        /\ last[r] = <<"get_entity", "ok">> =>
              /\ pc[r] = "send_file"
              /\ entity[r] \in EntityTypes
              /\ entity_resolved[r]
              /\ sends[r] = 1
        /\ pc[r] = "get_input_entity" =>
              last[r][1] = "get_entity" /\ last[r][2] # "ok"
        /\ pc[r] = "send_message" => last[r][1] = "get_input_entity"

\* The first send is in flight to the channel entity strategy 1 returned.
C11_Witness ==
    \E r \in Requests :
        /\ last[r] = <<"get_entity", "ok">>
        /\ pc[r] = "send_file"
        /\ entity[r] = "Channel"

\* C12: a probe that failed with an error other than "not found" is
\* followed, in the same attempt and with no exception raised, by the first
\* send to the integer id.
C12_ProbeErrorDegrades ==
    \A r \in Requests :
        last[r] = <<"send_message", "error">> =>
            /\ pc[r] = "send_file"
            /\ entity[r] = "int"
            /\ ~entity_resolved[r]
            /\ sends[r] = 1
            /\ exc[r] = "none"

\* The first send is in flight after a probe that failed otherwise.
C12_Witness ==
    \E r \in Requests :
        /\ last[r] = <<"send_message", "error">>
        /\ pc[r] = "send_file"
        /\ attempts[r] = 1

\* C13: no send is in flight to an address of the old chat format: after
\* strategy 2 returned one, the address is the integer id.
C13_NoLegacyAddress ==
    \A r \in Requests :
        /\ pc[r] \in {"send_file", "send_file_again"} => entity[r] # "InputPeerChat"
        /\ pc[r] \in {"send_file", "send_file_again"} =>
              entity[r] \in EntityTypes \cup InputTypes \cup {"int"}
        /\ last[r] = <<"get_input_entity", "ok">> /\ pc[r] = "send_message" =>
              entity[r] = "int" /\ ~entity_resolved[r]

\* Strategy 2 returned an address of the old format: the probe is in flight
\* and the address is already the integer id.
C13_Witness ==
    \E r \in Requests :
        /\ last[r] = <<"get_input_entity", "ok">>
        /\ pc[r] = "send_message"
        /\ entity[r] = "int"

\* A step of r that begins an attempt: the client is constructed.
BeginsAttempt(r) == pc[r] # "start" /\ pc'[r] = "start"

\* C18: a request that ended, or that waits for the lock to begin another
\* attempt, holds no client without a disconnect attempted; and an attempt
\* begins only from the call, from the lock queue or from the step in
\* which the disconnect of the attempt before returned.
C18_CloseAlwaysAttempted ==
    /\ [](\A r \in Requests :
             pc[r] \in {"done", "wait_lock"} => ~IsOpen(client[r]))
    /\ [][\A r \in Requests :
             BeginsAttempt(r) =>
                 \/ ~IsOpen(client[r])
                 \/ pc[r] \in {"flood_disconnect", "db_disconnect"}]_vars

\* A second attempt is connecting and the first one's client was closed on
\* the way; the other request ended with its client closed.
C18_Witness ==
    \E r1, r2 \in Requests :
        /\ r1 # r2
        /\ pc[r1] = "start"
        /\ attempts[r1] = 2
        /\ pc[r2] = "done"
        /\ client[r2] = "closed"

\* Both requests passed the argument checks with tokens of different
\* fingerprints.
OtherFingerprint(r1, r2) ==
    /\ session_lock[r1] # 0
    /\ session_lock[r2] # 0
    /\ _session_path_for_token(bot_token[r1]) # _session_path_for_token(bot_token[r2])

\* C19: requests of different fingerprints have different locks, and with
\* only a request of another fingerprint around a request never waits for
\* its lock.
C19_DifferentFingerprintsIndependent ==
    \A r1, r2 \in Requests :
        OtherFingerprint(r1, r2) =>
            /\ session_lock[r1] # session_lock[r2]
            /\ pc[r1] # "wait_lock"

\* Two requests of different fingerprints are sending at the same time.
C19_Witness ==
    \E r1, r2 \in Requests :
        /\ OtherFingerprint(r1, r2)
        /\ pc[r1] = "send_file"
        /\ pc[r2] = "send_file"

\* C20: a request without destination id or without credential ends with
\* the required-argument error and has no lock, no client and no attempt;
\* every registered lock was registered by a request that has both.
C20_MissingArgumentRejected ==
    /\ \A r \in Requests :
          group_id[r] = None \/ bot_token[r] = None =>
              /\ pc[r] \in {"init", "done"}
              /\ pc[r] = "done" => result[r] = "ValueError_required"
              /\ session_lock[r] = 0
              /\ client[r] = "none"
              /\ attempts[r] = 0
              /\ \A l \in Locks : locked[l] # r
    /\ \A p \in Paths :
          _session_locks[p] # 0 =>
              \E r \in Requests :
                  /\ group_id[r] # None
                  /\ bot_token[r] # None
                  /\ _session_path_for_token(bot_token[r]) = p

\* A call without destination id ended with the required-argument error
\* while the other request registered its lock.
C20_Witness ==
    \E r1, r2 \in Requests :
        /\ group_id[r1] = None
        /\ bot_token[r1] # None
        /\ pc[r1] = "done"
        /\ result[r1] = "ValueError_required"
        /\ session_lock[r2] # 0

\* C14 (ApiSpec): an upload larger than the maximum never has its delivery
\* started.
C14_OversizedNeverDelivered ==
    \A r \in Requests :
        upload[r].actual > MAX_FILE_SIZE_BYTES =>
            stage[r] # "delivering" /\ pc[r] = "init"

\* C15 (ApiSpec): without retention the staged file is there, with the
\* request's bytes and not yet removed, for as long as the delivery runs;
\* once the task finished, whatever the delivery ended with, the file is
\* gone and the request removed it exactly once.
C15_StagedFileRemovedOnce ==
    \A r \in Requests :
        ~upload[r].keep =>
            /\ unlinks[r] <= 1
            /\ stage[r] \in {"queued", "delivering"} =>
                  files[file_path[r]] = Holds(r) /\ unlinks[r] = 0
            /\ stage[r] = "finished" =>
                  /\ pc[r] = "done"
                  /\ result[r] \in DeliveryOutcomes(group_id[r], bot_token[r])
                  /\ ~files[file_path[r]].exists
                  /\ unlinks[r] = 1

\* Two uploads without retention finished, one delivered and one refused
\* for its missing destination id: both staged files are gone.
C15_Witness ==
    \E r1, r2 \in Requests :
        /\ ~upload[r1].keep /\ ~upload[r2].keep
        /\ stage[r1] = "finished" /\ result[r1] = "ok"
        /\ stage[r2] = "finished" /\ result[r2] = "ValueError_required"
        /\ unlinks[r1] = 1 /\ unlinks[r2] = 1

\* C16 (ApiSpec): with retention, once the task finished the file named
\* after the upload exists and holds the bytes of that upload.
C16_KeptFileHoldsPayload ==
    \A r \in Requests :
        upload[r].keep /\ stage[r] = "finished" =>
            files[SavedName(upload[r].filename, None)] = Holds(r)

\* C17 (ApiSpec): no two requests stage to the same name.
C17_StagedFilesPrivate ==
    \A r1, r2 \in Requests :
        r1 # r2 /\ file_path[r1] # None /\ file_path[r2] # None =>
            file_path[r1] # file_path[r2]

\* C21: whenever a send is in flight, the first of an attempt or the second
\* one inside it, it was issued with the payload cursor at 0; so was every
\* attempt that is about to begin after a rate-limit or locked-database
\* error.
C21_CursorAtStartOfEverySend ==
    \A r \in Requests :
        /\ pc[r] \in {"send_file", "send_file_again"} => cursor[r] = 0
        /\ pc[r] \in {"wait_lock", "start", "get_entity", "get_input_entity",
                      "send_message", "get_entity_again"} => cursor[r] = 0

\* The first send of a second attempt is in flight.
C21_Witness ==
    \E r \in Requests :
        /\ pc[r] = "send_file"
        /\ attempts[r] = 2
        /\ retry_count[r] = 1
        /\ cursor[r] = 0

\* C24: strategy 2 is in flight only after a strategy 1 that raised.  When
\* it returned, either the first send is in flight to the address it
\* returned, which is not of the old chat format, and no probe was sent, or
\* the probe is in flight with the integer id and the destination counted
\* as unresolved.
C24_Strategy2StopsOrProbes ==
    \A r \in Requests :
        /\ pc[r] = "get_input_entity" =>
              /\ last[r][1] = "get_entity"
              /\ last[r][2] \in {"error", "not_found"}
              /\ sends[r] = 0
        /\ last[r] = <<"get_input_entity", "ok">> =>
              \/ /\ pc[r] = "send_file"
                 /\ entity[r] \in {"InputPeerChannel", "InputPeerUser"}
                 /\ entity_resolved[r]
                 /\ sends[r] = 1
              \/ /\ pc[r] = "send_message"
                 /\ entity[r] = "int"
                 /\ ~entity_resolved[r]
                 /\ sends[r] = 0

\* The first send is in flight to the channel address strategy 2 returned.
C24_Witness ==
    \E r \in Requests :
        /\ last[r] = <<"get_input_entity", "ok">>
        /\ pc[r] = "send_file"
        /\ entity[r] = "InputPeerChannel"

\* C26: a request asleep for the rate-limit cooldown or the locked-database
\* back-off holds no lock.
C26_NoLockWhileSleeping ==
    \A r \in Requests :
        pc[r] \in {"flood_sleep", "db_sleep"} =>
            \A l \in Locks : locked[l] # r

\* While one request sleeps between two of its attempts, another request of
\* the same fingerprint holds the lock and has its send in flight.
C26_Witness ==
    \E r1, r2 \in Requests :
        /\ SameFingerprint(r1, r2)
        /\ pc[r1] \in {"flood_sleep", "db_sleep"}
        /\ attempts[r1] = 1
        /\ pc[r2] = "send_file"
        /\ locked[session_lock[r1]] = r2

\* C27: a send that returned is followed by the closing disconnect and then
\* by the successful end of the request, whatever the disconnect does; a
\* request that ended makes no further step.
C27_OneCompletedSend ==
    /\ [](\A r \in Requests :
            (last[r][1] \in {"send_file", "send_file_again"} /\ last[r][2] = "ok")
                => pc[r] = "success_disconnect")
    /\ [][\A r \in Requests :
            (pc[r] = "success_disconnect" /\ pc'[r] # pc[r]) =>
                /\ pc'[r] = "done"
                /\ result'[r] = "ok"
                /\ attempts'[r] = attempts[r]]_vars
    /\ [][\A r \in Requests :
            pc[r] = "done" =>
                /\ pc'[r] = "done"
                /\ result'[r] = result[r]
                /\ attempts'[r] = attempts[r]
                /\ client'[r] = client[r]]_vars

\* A request ended successfully on its second attempt.
C27_Witness ==
    \E r \in Requests :
        /\ pc[r] = "done"
        /\ result[r] = "ok"
        /\ attempts[r] = 2
        /\ client[r] = "closed"

\* C28: an attempt issues at most two sends.  The second is issued only
\* from a first send whose address was an input peer, and goes to the
\* integer id; after it no other send follows in the attempt.  The
\* destination-unreachable failure of a send ends the request: no attempt
\* follows it.
C28_SecondSendOnlyOnce ==
    /\ [](\A r \in Requests :
            /\ sends[r] <= 2
            /\ pc[r] = "send_file" => sends[r] = 1
            /\ pc[r] = "send_file_again" =>
                  /\ sends[r] = 2
                  /\ entity[r] = "int"
                  /\ last[r] = <<"send_file", "error">>
            /\ exc[r] = "ValueError_cannot_send" =>
                  /\ pc[r] \in {"reraise_disconnect", "done"}
                  /\ pc[r] = "done" => result[r] = "ValueError_cannot_send")
    /\ [][\A r \in Requests :
            /\ (pc[r] = "send_file" /\ pc'[r] = "send_file_again") =>
                  entity[r] \in InputTypes /\ entity_resolved[r]
            /\ (pc[r] = "send_file_again" /\ pc'[r] # pc[r]) =>
                  pc'[r] \notin {"send_file", "get_entity", "get_input_entity",
                                 "send_message", "get_entity_again"}]_vars

\* The second send of an attempt is in flight, to the integer id.
C28_Witness ==
    \E r \in Requests :
        /\ pc[r] = "send_file_again"
        /\ sends[r] = 2
        /\ entity[r] = "int"

\* C29: whatever strategy 1 or strategy 2 raises, the next step of the
\* attempt is the next strategy (or, when it returned, the send): the lock
\* stays held, nothing is counted and no handler of the retry loop runs.
C29_StrategyErrorsContinue ==
    /\ [][\A r \in Requests :
            (pc[r] = "get_entity" /\ pc'[r] # pc[r]) =>
                /\ pc'[r] \in {"get_input_entity", "send_file"}
                /\ retry_count'[r] = retry_count[r]
                /\ exc'[r] = "none"
                /\ locked'[session_lock[r]] = r]_vars
    /\ [][\A r \in Requests :
            (pc[r] = "get_input_entity" /\ pc'[r] # pc[r]) =>
                /\ pc'[r] \in {"send_message", "send_file"}
                /\ retry_count'[r] = retry_count[r]
                /\ exc'[r] = "none"
                /\ locked'[session_lock[r]] = r]_vars
    /\ [](\A r \in Requests :
            (last[r][1] \in {"get_entity", "get_input_entity"}
                    /\ last[r][2] # "ok") =>
                pc[r] \in {"get_input_entity", "send_message"})

\* Strategy 1 and then strategy 2 raised and the probe is in flight.
C29_Witness ==
    \E r \in Requests :
        /\ last[r] = <<"get_input_entity", "error">>
        /\ pc[r] = "send_message"
        /\ exc[r] = "none"
        /\ locked[session_lock[r]] = r

\* C25: every request ends, with success or with a failure raised; it makes
\* at most max_retries connect attempts, and none at all when max_retries
\* is not positive, in which case it ends with a failure.
C25_Terminates ==
    /\ \A r \in Requests : <>[](pc[r] = "done" /\ result[r] # "none")
    /\ [](\A r \in Requests :
            /\ attempts[r] <= max_retries[r]
            /\ max_retries[r] <= 0 =>
                  /\ attempts[r] = 0
                  /\ client[r] = "none"
                  /\ pc[r] = "done" =>
                        result[r] \in {"ValueError_required",
                                       "RPCError_failed_after"})

\* A request used up both attempts it was given on rate-limit errors and
\* ended with the failure raised after the loop.
C25_Witness ==
    \E r \in Requests :
        /\ pc[r] = "done"
        /\ max_retries[r] = 2
        /\ attempts[r] = 2
        /\ result[r] = "RPCError_failed_after"

\* C22: when staging fails on a read or a write, no file is left at the
\* staging path at the step that answers with the failure; a request
\* answered with the failure stays rejected, and its delivery is never
\* called.
C22_FailedStagingLeavesNothing ==
    /\ [][\A r \in Requests :
            (stage[r] \in {"writing", "written"} /\ response'[r] = "500") =>
                /\ ~files'[file_path[r]].exists
                /\ stage'[r] = "rejected"]_vars
    /\ [](\A r \in Requests :
            response[r] = "500" =>
                /\ stage[r] = "rejected"
                /\ pc[r] = "init"
                /\ result[r] = "none")
    /\ [][\A r \in Requests :
            stage[r] = "rejected" => stage'[r] = "rejected" /\ pc'[r] = "init"]_vars

\* Staging failed after the file had been created: the file was removed and
\* the request answered 500.
C22_Witness ==
    \E r \in Requests :
        /\ response[r] = "500"
        /\ stage[r] = "rejected"
        /\ unlinks[r] = 1
        /\ ~files[file_path[r]].exists

\* C23: the keywords of the send hold a button exactly when button_active
\* is true and button_text and button_url are both given and not empty; the
\* button then carries that text and that url.
C23_ButtonIffActiveAndGiven ==
    DOMAIN send_kwargs # {} =>
        /\ ("buttons" \in DOMAIN send_kwargs) =
              /\ send_args.button_active
              /\ send_args.button_text \notin {None, ""}
              /\ send_args.button_url \notin {None, ""}
        /\ "buttons" \in DOMAIN send_kwargs =>
              send_kwargs.buttons =
                  <<<<[text |-> send_args.button_text,
                       url |-> send_args.button_url]>>>>

\* A send was built with a button.
C23_Witness ==
    /\ "buttons" \in DOMAIN send_kwargs
    /\ send_args.button_active
    /\ send_args.button_text = "Open"

====
